---- MODULE Spec2Model ----
(***************************************************************************)
(* VitaStock: the stock ledger.  A Movement (IN, OUT, WASTE, ADJUST,       *)
(* TRANSFER) is validated by Movement.clean when its form is posted and    *)
(* applied to Batch.quantity by Movement.save inside transaction.atomic(), *)
(* under a row lock (select_for_update) on the source batch and, for a     *)
(* TRANSFER, on the destination batch found or created by get_or_create.   *)
(*                                                                         *)
(* The database is modelled at READ COMMITTED: `batches` and `movements`   *)
(* are the committed tables; what a transaction has read and written so    *)
(* far lives in tx[r] until its commit.  A request r is one post of the    *)
(* movement form; the requests run concurrently.                           *)
(*                                                                         *)
(* Spec is the ledger under concurrency: two posts of the movement form    *)
(* (create or edit), every interleaving of their steps.  SpecEdits is one  *)
(* post of the movement form interleaved with the views that write the     *)
(* tables directly: BatchUpdateView and MovementDeleteView.  SpecCreate is *)
(* one post of the movement form interleaved with BatchCreateView.         *)
(* SpecFaults is Spec with a storage that may refuse the Movement row.     *)
(* SpecLabel is an evaluation of Batch.status_label while the days pass.   *)
(* SpecFrame is two posts of movements that all carry a destination.      *)
(* SpecAccounts is two posts to AccountToggleView on a table of users.     *)
(* SpecLocks is Spec with the database's deadlock detection, under fair     *)
(* scheduling of the statements of save.                                   *)
(***************************************************************************)
EXTENDS Integers, FiniteSets, Sequences, TLC

\* Largest value the quantity column stores (PositiveIntegerField, scaled down).
MaxQty == 3
\* Number of batch edits and movement deletions the model lets happen.
MaxEdits == 1
\* Last day of the calendar the status label is evaluated on.
MaxDay == 12
\* timedelta(days=7): how far ahead an expiry date counts as expiring soon.
SoonDays == 7

Requests == {"r1", "r2"}
Locations == {"L1", "L2", "L3"}
Products == {"P1"}
LotCodes == {"lotA", "lotB"}
ExpiryDates == {"jan", "jun"}
MovementType == {"IN", "OUT", "WASTE", "ADJUST", "TRANSFER"}
None == "None"

VARIABLES
    batches,       \* Batch table: pk -> row, committed
    movements,     \* Movement table (the ledger): pk -> row, committed
    movement_seq,  \* last value of the Movement pk sequence
    clock,         \* number of committed transactions so far
    edits,         \* number of batch edits and movement deletions so far
    pc,            \* where each request stands
    self,          \* the Movement instance a request is validating / saving
    self_batch,    \* self.batch as loaded when the form was cleaned
    tx,            \* the open transaction of Movement.save
    outcome,       \* the response of the request
    render,        \* an evaluation of Batch.status_label, and the local date
    users,         \* User table: pk -> row, committed
    toggle         \* where each post to AccountToggleView stands

vars == <<batches, movements, movement_seq, clock, edits, pc, self, self_batch, tx,
          outcome, render, users, toggle>>

AccountVars == <<users, toggle>>

LedgerVars == <<batches, movements, movement_seq, clock, edits, pc, self,
                self_batch, tx, outcome>>

NoRow == [product |-> None, lot_code |-> None, expiry_date |-> None,
          quantity |-> 0, location |-> None]
NoMovement == [pk |-> 0, batch |-> 0, movement_type |-> None, quantity |-> 0,
               destination_location |-> None, cleanAt |-> 0]
NoTx == [batch |-> NoRow, dest |-> 0, dest_batch |-> NoRow, created |-> FALSE,
         lockAt |-> 0]

Max(a, b) == IF a >= b THEN a ELSE b

MaxOf(S) == IF S = {} THEN 0 ELSE CHOOSE x \in S : \A y \in S : y <= x

\* The fields of a stored Movement row.
MovementRow(m) == [batch |-> m.batch, movement_type |-> m.movement_type,
                   quantity |-> m.quantity,
                   destination_location |-> m.destination_location]

----------------------------------------------------------------------------
(* Movement.clean *)

\* As clean, with the destination of a TRANSFER checked before the quantity.
cleanDestinationFirst(m, rows) ==
    IF m.movement_type = "TRANSFER" /\ m.destination_location = None
    THEN "InvalidDestination"
    ELSE IF m.movement_type = "TRANSFER"
            /\ m.destination_location = rows[m.batch].location
    THEN "InvalidDestination"
    ELSE IF m.quantity < 1 THEN "InvalidQuantity"
    ELSE IF m.movement_type \in {"OUT", "WASTE", "TRANSFER"}
            /\ m.quantity > rows[m.batch].quantity
    THEN "InsufficientStock"
    ELSE "ok"

clean(m, rows) ==
    IF m.quantity < 1 THEN "InvalidQuantity"
    ELSE IF m.movement_type \in {"OUT", "WASTE"} /\ m.quantity > rows[m.batch].quantity
         THEN "InsufficientStock"
    ELSE IF m.movement_type = "TRANSFER"
         THEN IF m.destination_location = None THEN "InvalidDestination"
              ELSE IF m.destination_location = rows[m.batch].location
                   THEN "InvalidDestination"
              ELSE IF m.quantity > rows[m.batch].quantity THEN "InsufficientStock"
              ELSE "ok"
    ELSE "ok"

----------------------------------------------------------------------------
(* Movement.save: the pieces *)

\* As InsufficientStock, with the check of the WASTE branch left out.
InsufficientStockNoWaste(m, batch) ==
    /\ m.movement_type \in {"OUT", "TRANSFER"}
    /\ m.quantity > batch.quantity

\* As InsufficientStock, with the check of the TRANSFER branch left out.
InsufficientStockNoTransfer(m, batch) ==
    /\ m.movement_type \in {"OUT", "WASTE"}
    /\ m.quantity > batch.quantity

\* The sufficiency checks of save, on the row read under the lock.
InsufficientStock(m, batch) ==
    /\ m.movement_type \in {"OUT", "WASTE", "TRANSFER"}
    /\ m.quantity > batch.quantity

\* As NewQuantity, with ADJUST adding its amount like IN.
NewQuantityAdjustAdds(m, quantity) ==
    CASE m.movement_type \in {"IN", "ADJUST"} -> quantity + m.quantity
      [] m.movement_type \in {"OUT", "WASTE"} -> quantity - m.quantity
      [] OTHER -> quantity

\* As NewQuantity, with IN setting the quantity like ADJUST.
NewQuantityInSets(m, quantity) ==
    CASE m.movement_type \in {"IN", "ADJUST"} -> Max(0, m.quantity)
      [] m.movement_type \in {"OUT", "WASTE"} -> quantity - m.quantity
      [] OTHER -> quantity

\* batch.quantity after the IN / OUT / WASTE / ADJUST branch.
NewQuantity(m, quantity) ==
    CASE m.movement_type = "IN" -> quantity + m.quantity
      [] m.movement_type \in {"OUT", "WASTE"} -> quantity - m.quantity
      [] m.movement_type = "ADJUST" -> Max(0, m.quantity)
      [] OTHER -> quantity

\* As Matching, with expiry_date left out of the lookup.
MatchingAnyExpiry(rows, batch, location) ==
    {b \in DOMAIN rows : /\ rows[b].product = batch.product
                         /\ rows[b].lot_code = batch.lot_code
                         /\ rows[b].location = location}

\* The lookup of get_or_create: the rows with the source's product, lot code
\* and expiry date at the destination location.
Matching(rows, batch, location) ==
    {b \in DOMAIN rows : /\ rows[b].product = batch.product
                         /\ rows[b].lot_code = batch.lot_code
                         /\ rows[b].expiry_date = batch.expiry_date
                         /\ rows[b].location = location}

\* As SameKey, with expiry_date made part of the unique key.
SameKeyAndExpiry(rows, row) ==
    {b \in DOMAIN rows : /\ rows[b].product = row.product
                         /\ rows[b].lot_code = row.lot_code
                         /\ rows[b].expiry_date = row.expiry_date
                         /\ rows[b].location = row.location}

\* unique_together = (product, lot_code, location): the rows that forbid
\* inserting or moving a row to this key.
SameKey(rows, row) ==
    {b \in DOMAIN rows : /\ rows[b].product = row.product
                         /\ rows[b].lot_code = row.lot_code
                         /\ rows[b].location = row.location}

\* The row get_or_create inserts: defaults={"quantity": 0}.
NewBatch(batch, location) ==
    [product |-> batch.product, lot_code |-> batch.lot_code,
     expiry_date |-> batch.expiry_date, quantity |-> 0, location |-> location]

\* The database refuses a quantity above the column's range.
OutOfRange(quantity) == quantity > MaxQty

\* Rows with row b written (inserted when b is new).
Written(rows, b, row) ==
    [x \in DOMAIN rows \cup {b} |-> IF x = b THEN row ELSE rows[x]]

\* The rows a request holds locked: its source row from select_for_update on,
\* and the destination row get_or_create found.
LockedBy(r) ==
    IF pc[r] \notin {"locked", "resolved"} THEN {}
    ELSE {self[r].batch} \cup
         (IF pc[r] = "resolved" /\ ~tx[r].created THEN {tx[r].dest} ELSE {})

\* As LockedByOther, with select_for_update taking no lock.
NeverLocked(r, b) == FALSE

LockedByOther(r, b) == \E o \in Requests \ {r} : b \in LockedBy(o)

\* Rows inserted by open transactions: invisible to others, but their keys
\* are taken in the unique index.
Inserting(r) ==
    IF pc[r] = "resolved" /\ tx[r].created THEN {tx[r].dest_batch} ELSE {}

\* As KeyTakenByOther, with an insert that does not wait for the unique index.
KeyNeverTaken(r, row) == FALSE

KeyTakenByOther(r, row) ==
    \E o \in Requests \ {r} : \E i \in Inserting(o) :
        /\ i.product = row.product
        /\ i.lot_code = row.lot_code
        /\ i.location = row.location

\* The next Batch pk.
NextBatchPk ==
    MaxOf(DOMAIN batches \cup {tx[o].dest : o \in Requests}) + 1

\* As Rollback, with the writes made before the exception left in place.
NoRollback(rows, written) == written

\* Leaving transaction.atomic() on an exception: of the rows as the
\* transaction has written them, nothing reaches the committed tables.
Rollback(rows, written) == rows

\* As TransferWrites, with a source batch that reaches 0 deleted.
TransferWritesDeletingEmpty(rows, m, t) ==
    LET dest_batch == [t.dest_batch EXCEPT !.quantity = @ + m.quantity]
        written == Written(rows, t.dest, dest_batch)
    IN  IF t.batch.quantity = m.quantity /\ t.dest # m.batch
        THEN [x \in DOMAIN written \ {m.batch} |-> written[x]]
        ELSE Written(written, m.batch,
                     [t.batch EXCEPT !.quantity = @ - m.quantity])

\* As TransferWrites, with the destination quantity set instead of added to.
TransferWritesSet(rows, m, t) ==
    LET dest_batch == [t.dest_batch EXCEPT !.quantity = m.quantity]
        batch == [t.batch EXCEPT !.quantity = @ - m.quantity]
    IN  Written(Written(rows, t.dest, dest_batch), m.batch, batch)

\* dest_batch.save() then batch.save(), as the TRANSFER branch orders them.
TransferWrites(rows, m, t) ==
    LET dest_batch == [t.dest_batch EXCEPT !.quantity = @ + m.quantity]
        batch == [t.batch EXCEPT !.quantity = @ - m.quantity]
    IN  Written(Written(rows, t.dest, dest_batch), m.batch, batch)

\* super().save(): INSERT a new row, or UPDATE the row of self.pk
\* (inserting it again under that pk when the UPDATE matches no row).
SavedMovements(rows, m, pk) ==
    [x \in DOMAIN rows \cup {pk} |-> IF x = pk THEN MovementRow(m) ELSE rows[x]]

\* Movement.save run alone on the committed rows: what a save that commits
\* writes when no other transaction runs beside it.
ApplyMovement(rows, m) ==
    LET batch == rows[m.batch]
    IN  IF m.movement_type = "TRANSFER"
        THEN LET found == Matching(rows, batch, m.destination_location)
                 d == IF found # {} THEN CHOOSE b \in found : TRUE
                      ELSE MaxOf(DOMAIN rows) + 1
                 dest_batch == IF found # {} THEN rows[d]
                               ELSE NewBatch(batch, m.destination_location)
             IN  TransferWrites(rows, m, [NoTx EXCEPT !.batch = batch, !.dest = d,
                                                      !.dest_batch = dest_batch])
        ELSE Written(rows, m.batch,
                     [batch EXCEPT !.quantity = NewQuantity(m, @)])

----------------------------------------------------------------------------
(* Initial state: a lot code entered through BatchCreateView at two         *)
(* locations, with the same expiry date or with two                        *)

InitialBatches ==
    {[b \in {1, 2} |->
        IF b = 1
        THEN [product |-> "P1", lot_code |-> "lotA", expiry_date |-> "jan",
              quantity |-> MaxQty, location |-> "L1"]
        ELSE [product |-> "P1", lot_code |-> "lotA", expiry_date |-> e,
              quantity |-> 1, location |-> "L2"]] : e \in ExpiryDates}

\* No status label is being evaluated.
NoRender == [pc |-> "idle", expiry_date |-> 0, localdate |-> 0, calledAt |-> 0,
             returnedAt |-> 0, label |-> None]

\* The tables and the requests at the start.
InitLedger ==
    /\ batches \in InitialBatches
    /\ movements = <<>>
    /\ movement_seq = 0
    /\ clock = 0
    /\ edits = 0
    /\ pc = [r \in Requests |-> "new"]
    /\ self = [r \in Requests |-> NoMovement]
    /\ self_batch = [r \in Requests |-> NoRow]
    /\ tx = [r \in Requests |-> NoTx]
    /\ outcome = [r \in Requests |-> None]

\* A post to AccountToggleView that has not arrived.
NoUser == [is_active |-> FALSE, is_staff |-> FALSE, is_superuser |-> FALSE]
NoToggle == [pc |-> "new", request_user |-> 0, pk |-> 0, user |-> NoUser,
             readAt |-> 0, savedAt |-> 0, outcome |-> None]

\* The User table: a staff member, a superuser and a plain user, each active
\* or not.
InitialUsers ==
    {[u \in 1 .. 3 |-> [is_active |-> active[u], is_staff |-> u = 1,
                        is_superuser |-> u = 2]] :
        active \in [1 .. 3 -> BOOLEAN]}

InitAccounts ==
    /\ users = [u \in 1 .. 3 |-> [is_active |-> TRUE, is_staff |-> u = 1,
                                  is_superuser |-> u = 2]]
    /\ toggle = [r \in Requests |-> NoToggle]

Init == InitLedger /\ render = NoRender /\ InitAccounts

----------------------------------------------------------------------------
(* Posting a movement form: MovementCreateView / MovementUpdateView *)

MovementQuantities == 0 .. (MaxQty - 1)

\* The posted fields.  A destination is drawn for a TRANSFER only.
FormData(pk) ==
    {m \in [pk : {pk}, batch : DOMAIN batches, movement_type : MovementType,
            quantity : MovementQuantities,
            destination_location : Locations \cup {None}, cleanAt : {clock}] :
        m.movement_type # "TRANSFER" => m.destination_location = None}

\* form.is_valid(): the instance is built from the posted fields and cleaned.
PostForm(r, m) ==
    /\ pc[r] = "new"
    /\ self' = [self EXCEPT ![r] = m]
    /\ self_batch' = [self_batch EXCEPT ![r] = batches[m.batch]]
    /\ tx' = [tx EXCEPT ![r] = NoTx]
    /\ IF clean(m, batches) = "ok"
       THEN /\ pc' = [pc EXCEPT ![r] = "validated"]
            /\ outcome' = [outcome EXCEPT ![r] = None]
       ELSE /\ pc' = [pc EXCEPT ![r] = "done"]
            /\ outcome' = [outcome EXCEPT ![r] = clean(m, batches)]
    /\ UNCHANGED <<batches, movements, movement_seq, clock, edits, render, users, toggle>>

MovementCreateView(r) == \E m \in FormData(0) : PostForm(r, m)

MovementUpdateView(r) ==
    \E pk \in DOMAIN movements : \E m \in FormData(pk) : PostForm(r, m)

\* The fields of MovementForm, each with any value the form accepts:
\* destination_location is a field of the form for every movement type.
MovementForm(pk) ==
    [pk : {pk}, batch : DOMAIN batches, movement_type : MovementType,
     quantity : MovementQuantities,
     destination_location : Locations \cup {None}, cleanAt : {clock}]

\* MovementCreateView posted with a destination_location on any movement.
MovementCreateViewWithDestination(r) ==
    \E m \in MovementForm(0) :
        /\ m.destination_location # None
        /\ PostForm(r, m)

----------------------------------------------------------------------------
(* Movement.save, step by step *)

\* An exception leaves the atomic block before any row was written.
Raise(r, error, t) ==
    /\ pc' = [pc EXCEPT ![r] = "done"]
    /\ outcome' = [outcome EXCEPT ![r] = error]
    /\ tx' = [tx EXCEPT ![r] = t]
    /\ batches' = Rollback(batches, batches)
    /\ UNCHANGED <<movements, movement_seq, clock, edits, self, self_batch, render, users, toggle>>

\* As LockedRow, with save trusting self.batch, the row clean loaded.
StaleRow(r) == self_batch[r]

\* The row select_for_update().get(pk=self.batch_id) returns: the committed
\* row, read again once the lock is held.
LockedRow(r) == batches[self[r].batch]

\* select_for_update().get(pk=self.batch_id), and the branch on movement_type
\* up to its first database call.
save_select_for_update(r) ==
    /\ pc[r] = "validated"
    /\ ~LockedByOther(r, self[r].batch)
    /\ LET m == self[r]
           batch == LockedRow(r)
           t == [NoTx EXCEPT !.batch = batch, !.lockAt = clock]
       IN  IF InsufficientStock(m, batch)
           THEN Raise(r, "InsufficientStock", t)
           ELSE /\ pc' = [pc EXCEPT ![r] = "locked"]
                /\ tx' = [tx EXCEPT ![r] =
                            [t EXCEPT !.batch.quantity = NewQuantity(m, @)]]
                /\ UNCHANGED <<batches, movements, movement_seq, clock, edits,
                               self, self_batch, outcome, render, users, toggle>>

\* select_for_update().get_or_create(...) of the TRANSFER branch.
save_get_or_create(r) ==
    /\ pc[r] = "locked"
    /\ self[r].movement_type = "TRANSFER"
    /\ LET m == self[r]
           t == tx[r]
           found == Matching(batches, t.batch, m.destination_location)
           row == NewBatch(t.batch, m.destination_location)
       IN  IF found # {}
           THEN LET d == CHOOSE b \in found : TRUE
                IN  /\ ~LockedByOther(r, d)
                    /\ pc' = [pc EXCEPT ![r] = "resolved"]
                    /\ tx' = [tx EXCEPT ![r] = [t EXCEPT !.dest = d,
                                                         !.dest_batch = batches[d],
                                                         !.created = FALSE]]
                    /\ UNCHANGED <<batches, movements, movement_seq, clock, edits,
                                   self, self_batch, outcome, render, users, toggle>>
           ELSE IF SameKey(batches, row) # {}
           THEN Raise(r, "IntegrityError", t)
           ELSE /\ ~KeyTakenByOther(r, row)
                /\ pc' = [pc EXCEPT ![r] = "resolved"]
                /\ tx' = [tx EXCEPT ![r] = [t EXCEPT !.dest = NextBatchPk,
                                                     !.dest_batch = row,
                                                     !.created = TRUE]]
                /\ UNCHANGED <<batches, movements, movement_seq, clock, edits,
                               self, self_batch, outcome, render, users, toggle>>

\* The committed tables after the writes of save and the commit.
Commit(r, rows) ==
    LET m == self[r]
        pk == IF m.pk = 0 THEN movement_seq + 1 ELSE m.pk
    IN  /\ batches' = rows
        /\ movements' = SavedMovements(movements, m, pk)
        /\ movement_seq' = IF m.pk = 0 THEN movement_seq + 1 ELSE movement_seq
        /\ clock' = clock + 1
        /\ pc' = [pc EXCEPT ![r] = "done"]
        /\ outcome' = [outcome EXCEPT ![r] = "ok"]
        /\ UNCHANGED <<edits, self, self_batch, tx, render, users, toggle>>

\* dest_batch.save(), batch.save(), super().save() and the commit.
save_commit(r) ==
    LET m == self[r]
        t == tx[r]
    IN  \/ /\ pc[r] = "locked"
           /\ m.movement_type # "TRANSFER"
           /\ IF OutOfRange(t.batch.quantity)
              THEN Raise(r, "DataError", t)
              ELSE Commit(r, Written(batches, m.batch, t.batch))
        \/ /\ pc[r] = "resolved"
           /\ IF OutOfRange(t.dest_batch.quantity + m.quantity)
              THEN Raise(r, "DataError", t)
              ELSE Commit(r, TransferWrites(batches, m, t))

\* super().save() fails (the storage refuses the Movement row) after
\* dest_batch.save() and batch.save() have written inside the atomic block.
save_insert_fails(r) ==
    LET m == self[r]
        t == tx[r]
        written == IF m.movement_type = "TRANSFER"
                   THEN TransferWrites(batches, m, t)
                   ELSE Written(batches, m.batch, t.batch)
    IN  /\ \/ pc[r] = "locked" /\ m.movement_type # "TRANSFER"
              /\ ~OutOfRange(t.batch.quantity)
           \/ pc[r] = "resolved"
              /\ ~OutOfRange(t.dest_batch.quantity + m.quantity)
        /\ pc' = [pc EXCEPT ![r] = "done"]
        /\ outcome' = [outcome EXCEPT ![r] = "DatabaseError"]
        /\ batches' = Rollback(batches, written)
        /\ UNCHANGED <<movements, movement_seq, clock, edits, self, self_batch, tx, render, users, toggle>>

\* The next statement of save in request r waits for a lock request o
\* holds: select_for_update().get on a row o has locked, get_or_create on a
\* found row o has locked, or on a key o is inserting.
WaitsFor(r, o) ==
    /\ r # o
    /\ \/ /\ pc[r] = "validated"
          /\ self[r].batch \in LockedBy(o)
       \/ /\ pc[r] = "locked"
          /\ self[r].movement_type = "TRANSFER"
          /\ LET found == Matching(batches, tx[r].batch, self[r].destination_location)
                 row == NewBatch(tx[r].batch, self[r].destination_location)
             IN  IF found # {}
                 THEN (CHOOSE b \in found : TRUE) \in LockedBy(o)
                 ELSE /\ SameKey(batches, row) = {}
                      /\ \E i \in Inserting(o) : /\ i.product = row.product
                                                 /\ i.lot_code = row.lot_code
                                                 /\ i.location = row.location

\* As deadlock_detected, with a database that lets both transactions wait.
lock_wait_forever(r) == FALSE /\ UNCHANGED vars

\* The database finds request r in a cycle of lock waits and aborts its
\* transaction: select_for_update raises and the atomic block is left.
deadlock_detected(r) ==
    /\ \E o \in Requests : WaitsFor(r, o) /\ WaitsFor(o, r)
    /\ Raise(r, "OperationalError", tx[r])

----------------------------------------------------------------------------
(* AccountToggleView *)

\* The pks a post can name: those of the users, and one of no user.
PostedPks == 1 .. 4

AnonymousUser == NoUser

\* request.user: the user of the session, while active; AnonymousUser without.
RequestUser(u) == IF u \in DOMAIN users THEN users[u] ELSE AnonymousUser

\* StaffRequiredMixin.test_func
test_func(request_user) == request_user.is_staff \/ request_user.is_superuser

\* As Toggled, with the account deactivated whatever it was.
Deactivated(user) == [user EXCEPT !.is_active = FALSE]

\* user.is_active = not user.is_active
Toggled(user) == [user EXCEPT !.is_active = ~@]

\* dispatch and post up to get_object_or_404: the permission test, the
\* refusal of one's own account, and the read of the target.
AccountToggleView(r) ==
    /\ toggle[r].pc = "new"
    /\ \E u \in {x \in DOMAIN users : users[x].is_active} \cup {0} :
       \E pk \in PostedPks :
          LET posted == [NoToggle EXCEPT !.request_user = u, !.pk = pk,
                                         !.pc = "done"]
          IN  toggle' = [toggle EXCEPT ![r] =
                  IF ~test_func(RequestUser(u))
                  THEN [posted EXCEPT !.outcome = "PermissionDenied"]
                  ELSE IF u = pk
                  THEN [posted EXCEPT !.outcome = "warning"]
                  ELSE IF pk \notin DOMAIN users
                  THEN [posted EXCEPT !.outcome = "Http404"]
                  ELSE [posted EXCEPT !.pc = "loaded", !.user = users[pk],
                                      !.readAt = clock]]
    /\ UNCHANGED <<LedgerVars, render, users>>

\* user.save(), and the success message.
user_save(r) ==
    /\ toggle[r].pc = "loaded"
    /\ users' = [users EXCEPT ![toggle[r].pk] = Toggled(toggle[r].user)]
    /\ clock' = clock + 1
    /\ toggle' = [toggle EXCEPT ![r].pc = "done", ![r].outcome = "success",
                                ![r].savedAt = clock + 1]
    /\ UNCHANGED <<batches, movements, movement_seq, edits, pc, self,
                   self_batch, tx, outcome, render>>

----------------------------------------------------------------------------
(* The other views that write *)

\* BatchForm posts product, lot_code, expiry_date, quantity and location; the
\* edits drawn here change one field of the row.
BatchFormData(row) ==
    {[row EXCEPT !.quantity = q] : q \in 0 .. MaxQty}
    \cup {[row EXCEPT !.location = l] : l \in Locations}
    \cup {[row EXCEPT !.lot_code = c] : c \in LotCodes}
    \cup {[row EXCEPT !.expiry_date = e] : e \in ExpiryDates}

BatchUpdateView(b) ==
    /\ b \in DOMAIN batches
    /\ edits < MaxEdits
    /\ \A r \in Requests : b \notin LockedBy(r)
    /\ \E row \in BatchFormData(batches[b]) \ {batches[b]} :
          /\ SameKey(batches, row) \subseteq {b}
          /\ ~\E r \in Requests : \E i \in Inserting(r) :
                 i.product = row.product /\ i.lot_code = row.lot_code
                 /\ i.location = row.location
          /\ batches' = [batches EXCEPT ![b] = row]
    /\ clock' = clock + 1
    /\ edits' = edits + 1
    /\ UNCHANGED <<movements, movement_seq, pc, self, self_batch, tx, outcome, render, users, toggle>>

\* The rows the batch form posts for a new batch: any product, lot code,
\* expiry date and location, the quantity drawn from an empty and a stocked one.
NewBatchFormData ==
    [product : Products, lot_code : LotCodes, expiry_date : ExpiryDates,
     quantity : {0, 1}, location : Locations]

\* BatchCreateView: the form's validate_unique, then the INSERT, which waits
\* for an open transaction that is inserting the same key.
BatchCreateView(row) ==
    /\ edits < MaxEdits
    /\ SameKey(batches, row) = {}
    /\ ~\E r \in Requests : \E i \in Inserting(r) :
           i.product = row.product /\ i.lot_code = row.lot_code
           /\ i.location = row.location
    /\ batches' = Written(batches, NextBatchPk, row)
    /\ clock' = clock + 1
    /\ edits' = edits + 1
    /\ UNCHANGED <<movements, movement_seq, pc, self, self_batch, tx, outcome, render, users, toggle>>

\* As MovementDeleteView, with the delta of an IN, OUT or WASTE taken back
\* from its batch.
MovementDeleteViewReversing(pk) ==
    /\ pk \in DOMAIN movements
    /\ edits < MaxEdits
    /\ movements' = [x \in DOMAIN movements \ {pk} |-> movements[x]]
    /\ LET m == movements[pk]
           q == batches[m.batch].quantity
       IN  batches' = [batches EXCEPT ![m.batch].quantity =
                          CASE m.movement_type = "IN" -> Max(0, q - m.quantity)
                            [] m.movement_type \in {"OUT", "WASTE"} -> q + m.quantity
                            [] OTHER -> q]
    /\ clock' = clock + 1
    /\ edits' = edits + 1
    /\ UNCHANGED <<movement_seq, pc, self, self_batch, tx, outcome, render, users, toggle>>

\* DeleteView: the row is deleted, and nothing else is written.
MovementDeleteView(pk) ==
    /\ pk \in DOMAIN movements
    /\ edits < MaxEdits
    /\ movements' = [x \in DOMAIN movements \ {pk} |-> movements[x]]
    /\ clock' = clock + 1
    /\ edits' = edits + 1
    /\ UNCHANGED <<batches, movement_seq, pc, self, self_batch, tx, outcome, render, users, toggle>>

----------------------------------------------------------------------------
(* Batch.status_label.  Dates are day numbers; each property reads the      *)
(* local date with timezone.localdate() when it is evaluated.              *)

Days == 0 .. MaxDay

is_expired(expiry_date, localdate) == expiry_date < localdate

expires_soon(expiry_date, today) ==
    today <= expiry_date /\ expiry_date <= today + SoonDays

\* status_label is called on a batch with some expiry date, on some day.
InitLabel ==
    /\ InitLedger
    /\ render \in {[NoRender EXCEPT !.pc = "called", !.expiry_date = e,
                                    !.localdate = d] : e \in Days, d \in Days}
    /\ InitAccounts

\* if self.is_expired: return "expired"
status_label_is_expired ==
    /\ render.pc = "called"
    /\ render' = IF is_expired(render.expiry_date, render.localdate)
                 THEN [render EXCEPT !.pc = "returned", !.label = "expired",
                                     !.calledAt = render.localdate,
                                     !.returnedAt = render.localdate]
                 ELSE [render EXCEPT !.pc = "not_expired",
                                     !.calledAt = render.localdate]
    /\ UNCHANGED <<LedgerVars, AccountVars>>

\* if self.expires_soon: return "warning"; return "ok"
status_label_expires_soon ==
    /\ render.pc = "not_expired"
    /\ render' = [render EXCEPT
                    !.pc = "returned",
                    !.returnedAt = render.localdate,
                    !.label = IF expires_soon(render.expiry_date, render.localdate)
                              THEN "warning" ELSE "ok"]
    /\ UNCHANGED <<LedgerVars, AccountVars>>

\* The local date changes: what timezone.localdate() returns from now on.
Midnight ==
    /\ render.pc # "idle"
    /\ render.localdate < MaxDay
    /\ render' = [render EXCEPT !.localdate = @ + 1]
    /\ UNCHANGED <<LedgerVars, AccountVars>>

NextLabel ==
    \/ status_label_is_expired
    \/ status_label_expires_soon
    \/ Midnight

SpecLabel == InitLabel /\ [][NextLabel]_vars

----------------------------------------------------------------------------

Next ==
    \/ \E r \in Requests : MovementCreateView(r)
    \/ \E r \in Requests : MovementUpdateView(r)
    \/ \E r \in Requests : save_select_for_update(r)
    \/ \E r \in Requests : save_get_or_create(r)
    \/ \E r \in Requests : save_commit(r)

Spec == Init /\ [][Next]_vars

NextEdits ==
    \/ MovementCreateView("r1")
    \/ save_select_for_update("r1")
    \/ save_get_or_create("r1")
    \/ save_commit("r1")
    \/ \E b \in DOMAIN batches : BatchUpdateView(b)
    \/ \E pk \in DOMAIN movements : MovementDeleteView(pk)

SpecEdits == Init /\ [][NextEdits]_vars

NextCreate ==
    \/ MovementCreateView("r1")
    \/ save_select_for_update("r1")
    \/ save_get_or_create("r1")
    \/ save_commit("r1")
    \/ \E row \in NewBatchFormData : BatchCreateView(row)

SpecCreate == Init /\ [][NextCreate]_vars

NextFaults ==
    \/ Next
    \/ \E r \in Requests : save_insert_fails(r)

SpecFaults == Init /\ [][NextFaults]_vars

NextFrame ==
    \/ \E r \in Requests : MovementCreateViewWithDestination(r)
    \/ \E r \in Requests : save_select_for_update(r)
    \/ \E r \in Requests : save_get_or_create(r)
    \/ \E r \in Requests : save_commit(r)

SpecFrame == Init /\ [][NextFrame]_vars

InitUsers ==
    /\ InitLedger
    /\ render = NoRender
    /\ users \in InitialUsers
    /\ toggle = [r \in Requests |-> NoToggle]

NextAccounts ==
    \/ \E r \in Requests : AccountToggleView(r)
    \/ \E r \in Requests : user_save(r)

SpecAccounts == InitUsers /\ [][NextAccounts]_vars

NextLocks ==
    \/ Next
    \/ \E r \in Requests : deadlock_detected(r)

\* Every statement of a save that is not waiting for a lock is eventually
\* run, and so is the abort of a detected deadlock.  Nothing obliges a form
\* to be posted.
Fairness ==
    \A r \in Requests :
        /\ WF_vars(save_select_for_update(r))
        /\ WF_vars(save_get_or_create(r))
        /\ WF_vars(save_commit(r))
        /\ WF_vars(deadlock_detected(r))

SpecLocks == Init /\ [][NextLocks]_vars /\ Fairness

----------------------------------------------------------------------------
(* Vocabulary of the properties *)

Decrementing(m) == m.movement_type \in {"OUT", "WASTE", "TRANSFER"}

\* The step in which request r commits its save.
Commits(r) ==
    /\ pc[r] \in {"locked", "resolved"}
    /\ pc'[r] = "done"
    /\ outcome'[r] = "ok"

\* Request r got past clean and ran save.
Saved(r) == pc[r] = "done" /\ tx[r] # NoTx

\* r and o are posts of decrementing movements on one batch, cleaned against
\* the same committed quantity, each within it and together beyond it.
Race(r, o) ==
    /\ r # o
    /\ Saved(r) /\ Saved(o)
    /\ self[r].batch = self[o].batch
    /\ Decrementing(self[r]) /\ Decrementing(self[o])
    /\ self[r].cleanAt = self[o].cleanAt
    /\ self_batch[r].quantity = self_batch[o].quantity
    /\ self[r].quantity <= self_batch[r].quantity
    /\ self[o].quantity <= self_batch[o].quantity
    /\ self[r].quantity + self[o].quantity > self_batch[r].quantity

----------------------------------------------------------------------------
(* C1 *)

\* C1: in every state reachable by interleaved applications of IN, OUT,
\* WASTE, ADJUST and TRANSFER movements, committed or rejected, the quantity
\* of every Batch is >= 0.
C1_NonNegative == \A b \in DOMAIN batches : batches[b].quantity >= 0

\* A decrement emptied a batch and a concurrent one was rejected by save.
C1_Witness ==
    \E r, o \in Requests :
        /\ Race(r, o)
        /\ outcome[r] = "ok"
        /\ outcome[o] = "InsufficientStock"
        /\ batches[self[r].batch].quantity = 0

----------------------------------------------------------------------------
(* C2 *)

\* C2 (as claimed): saving a Movement that is already persisted (self.pk set,
\* the edit of MovementUpdateView) changes no Batch quantity, so that each
\* Movement is applied once, at its creation.
C2_SavedAgainChangesNothing ==
    [][\A r \in Requests :
          Commits(r) /\ self[r].pk # 0 =>
              \A b \in DOMAIN batches :
                  b \in DOMAIN batches' /\ batches'[b].quantity = batches[b].quantity]_vars

----------------------------------------------------------------------------
(* C3 *)

\* C3 (as claimed): of two concurrent decrementing movements on one batch,
\* each within the quantity and together beyond it, exactly one commits and
\* the other fails with InsufficientStock.
C3_ExactlyOneCommits ==
    \A r, o \in Requests :
        Race(r, o) =>
            \/ outcome[r] = "ok" /\ outcome[o] = "InsufficientStock"
            \/ outcome[o] = "ok" /\ outcome[r] = "InsufficientStock"

\* C3 (amended): of two such movements at most one commits and at most one
\* is rejected for stock, so exactly one commits unless a TRANSFER fails for
\* another reason (IntegrityError at get_or_create, a destination quantity
\* out of range); a rejection for stock in save is decided on the quantity
\* read under the lock, which the movement exceeds while it was within the
\* quantity clean read; and no quantity is negative.
C3_AtMostOneCommits ==
    /\ \A b \in DOMAIN batches : batches[b].quantity >= 0
    /\ \A r, o \in Requests :
          Race(r, o) =>
              /\ ~(outcome[r] = "ok" /\ outcome[o] = "ok")
              /\ ~(outcome[r] = "InsufficientStock" /\ outcome[o] = "InsufficientStock")
              /\ outcome[r] \in {"ok", "InsufficientStock", "IntegrityError", "DataError"}
              /\ outcome[r] = "InsufficientStock" =>
                     /\ self[r].quantity > tx[r].batch.quantity
                     /\ tx[r].batch.quantity =
                            self_batch[r].quantity - self[o].quantity

\* Two OUT movements raced; one committed, the other was rejected by save.
C3_Witness ==
    \E r, o \in Requests :
        /\ Race(r, o)
        /\ self[r].movement_type = "OUT" /\ self[o].movement_type = "OUT"
        /\ outcome[r] = "ok"
        /\ outcome[o] = "InsufficientStock"
        /\ batches[self[r].batch].quantity = self_batch[r].quantity - self[r].quantity

----------------------------------------------------------------------------
(* C4 *)

\* The quantity of batch b, 0 for a batch that does not exist yet.
QuantityOf(rows, b) == IF b \in DOMAIN rows THEN rows[b].quantity ELSE 0

\* C4 (as claimed): a committed TRANSFER of q from batch A to the resolved
\* destination batch B takes exactly q from A, adds exactly q to B (0 before
\* when B is new), and leaves the sum of the two quantities as it was.
C4_TransferConserves ==
    [][\A r \in Requests :
          Commits(r) /\ self[r].movement_type = "TRANSFER" =>
              LET A == self[r].batch
                  B == tx[r].dest
                  q == self[r].quantity
              IN  /\ batches'[A].quantity = batches[A].quantity - q
                  /\ batches'[B].quantity = QuantityOf(batches, B) + q
                  /\ batches'[A].quantity + batches'[B].quantity =
                         batches[A].quantity + QuantityOf(batches, B)]_vars

----------------------------------------------------------------------------
(* C5 *)

\* The step in which the form of request r is posted and cleaned.
Posts(r) == pc[r] = "new" /\ pc'[r] # "new"

\* The step in which save of request r reads its batch under the lock.
Locks(r) == pc[r] = "validated" /\ pc'[r] # "validated"

\* m asks for more than its source batch holds now.
Overdraw(m) == Decrementing(m) /\ m.quantity > batches[m.batch].quantity

\* The destination of m is given and is not the location of its source batch.
DestinationGiven(m) ==
    m.movement_type = "TRANSFER" =>
        /\ m.destination_location # None
        /\ m.destination_location # batches[m.batch].location

Rejected(r, error) ==
    /\ pc'[r] = "done"
    /\ outcome'[r] = error
    /\ batches' = batches
    /\ movements' = movements

\* C5 (as claimed): an OUT, WASTE or TRANSFER asking for more than the source
\* batch holds, when clean or save looks, fails with InsufficientStock and
\* leaves the Batch and Movement tables as they were.
C5_OverdrawRejected ==
    [][\A r \in Requests :
          /\ Posts(r) /\ Overdraw(self'[r]) => Rejected(r, "InsufficientStock")
          /\ Locks(r) /\ Overdraw(self[r]) => Rejected(r, "InsufficientStock")]_vars

\* C5 (amended): the same, for an OUT, a WASTE, or a TRANSFER whose
\* destination is given and differs from the location of the source batch (a
\* TRANSFER without such a destination is rejected by clean for its
\* destination before the stock is looked at).
C5_ValidOverdrawRejected ==
    [][\A r \in Requests :
          /\ Posts(r) /\ Overdraw(self'[r]) /\ DestinationGiven(self'[r])
                => Rejected(r, "InsufficientStock")
          /\ Locks(r) /\ Overdraw(self[r]) /\ DestinationGiven(self[r])
                => Rejected(r, "InsufficientStock")]_vars

\* The same over-drawing TRANSFER was posted twice and rejected twice, and
\* the tables are as they were at the start.
C5_Witness ==
    \E r, o \in Requests :
        /\ r # o
        /\ pc[r] = "done" /\ pc[o] = "done"
        /\ MovementRow(self[r]) = MovementRow(self[o])
        /\ self[r].movement_type = "TRANSFER"
        /\ self[r].quantity > batches[self[r].batch].quantity
        /\ outcome[r] = "InsufficientStock"
        /\ outcome[o] = "InsufficientStock"
        /\ batches \in InitialBatches
        /\ movements = <<>>

----------------------------------------------------------------------------
(* C6 *)

\* The destination location of the TRANSFER of r holds the product and lot
\* code of its source batch under another expiry date.
DestinationTaken(r) ==
    \E b \in DOMAIN batches :
        /\ batches[b].product = tx[r].batch.product
        /\ batches[b].lot_code = tx[r].batch.lot_code
        /\ batches[b].location = self[r].destination_location
        /\ batches[b].expiry_date # tx[r].batch.expiry_date

\* C6: a TRANSFER whose destination cannot be resolved (the destination
\* location holds the same product and lot code under another expiry date)
\* fails at get_or_create; and every step of a TRANSFER other than its
\* commit, its failure included, leaves the Batch and Movement tables as they
\* were: no decrement of the source, no destination changed or created, no
\* Movement recorded.
C6_FailedTransferChangesNothing ==
    [][\A r \in Requests :
          self[r].movement_type = "TRANSFER" =>
              /\ pc[r] = "locked" /\ pc'[r] # "locked" /\ DestinationTaken(r)
                    => pc'[r] = "done" /\ outcome'[r] = "IntegrityError"
              /\ pc'[r] # pc[r] /\ ~Commits(r)
                    => batches' = batches /\ movements' = movements]_vars

\* A TRANSFER failed at get_or_create and its source batch is as it was read.
C6_Witness ==
    \E r \in Requests :
        /\ pc[r] = "done"
        /\ self[r].movement_type = "TRANSFER"
        /\ outcome[r] = "IntegrityError"
        /\ batches[self[r].batch] = tx[r].batch
        /\ batches[self[r].batch].quantity >= self[r].quantity
        /\ movements = <<>>

----------------------------------------------------------------------------
(* C7 *)

\* C7 (as claimed): a Movement row, once in the ledger, keeps its batch,
\* movement_type, quantity and destination_location whatever happens next.
C7_MovementImmutable ==
    [][\A pk \in DOMAIN movements :
          pk \in DOMAIN movements' => movements'[pk] = movements[pk]]_vars

----------------------------------------------------------------------------
(* C8 *)

\* C8 (as claimed): the quantity of an existing Batch changes only in the
\* step in which a Movement.save commits.
C8_OnlyMovementsChangeQuantity ==
    [][\A b \in DOMAIN batches :
          b \in DOMAIN batches' /\ batches'[b].quantity # batches[b].quantity =>
              \E r \in Requests : Commits(r)]_vars

----------------------------------------------------------------------------
(* C9 *)

\* The rows of a table, whatever their pks.
Rows(rows) == {rows[b] : b \in DOMAIN rows}

\* C9: whatever the interleaving, each save that commits leaves the Batch
\* table as Movement.save run alone, at the moment of the commit, on the rows
\* committed so far would: the quantities are those of the committed
\* movements applied one at a time in commit order, and no delta is lost.
C9_SerialInCommitOrder ==
    [][\A r \in Requests :
          Commits(r) =>
              /\ Rows(batches') = Rows(ApplyMovement(batches, self[r]))
              /\ \A b \in DOMAIN batches :
                     batches'[b] = ApplyMovement(batches, self[r])[b]]_vars

\* Two IN movements on one batch, cleaned against the same quantity, both
\* committed, and the batch holds that quantity plus both amounts.
C9_Witness ==
    \E r, o \in Requests :
        /\ r # o
        /\ outcome[r] = "ok" /\ outcome[o] = "ok"
        /\ self[r].movement_type = "IN" /\ self[o].movement_type = "IN"
        /\ self[r].batch = self[o].batch
        /\ self[r].cleanAt = self[o].cleanAt
        /\ tx[o].lockAt > tx[r].lockAt
        /\ batches[self[r].batch].quantity =
               self_batch[r].quantity + self[r].quantity + self[o].quantity

----------------------------------------------------------------------------
(* C10 *)

----------------------------------------------------------------------------
(* C11 *)

\* C11: in every state reachable by batch creations, batch edits and TRANSFER
\* movements, no two Batch rows share the same (product, lot_code, location).
C11_UniqueBatches ==
    \A a, b \in DOMAIN batches :
        a # b => \/ batches[a].product # batches[b].product
                 \/ batches[a].lot_code # batches[b].lot_code
                 \/ batches[a].location # batches[b].location

\* The batch form created a batch and a TRANSFER created another.
C11_Witness ==
    \E r \in Requests :
        /\ outcome[r] = "ok"
        /\ self[r].movement_type = "TRANSFER"
        /\ tx[r].created
        /\ tx[r].dest \in DOMAIN batches
        /\ Cardinality(DOMAIN batches) = 4

----------------------------------------------------------------------------
(* C12 *)

\* C12 (as claimed): a committed TRANSFER of q from batch A to location L
\* leaves a destination batch with A's product, lot code and expiry date at
\* L; when a batch with that key existed before, it is that batch, no batch
\* is created and its quantity has grown by q; otherwise exactly one batch is
\* created and it holds q.
C12_DestinationResolved ==
    [][\A r \in Requests :
          Commits(r) /\ self[r].movement_type = "TRANSFER" =>
              LET A == batches[self[r].batch]
                  L == self[r].destination_location
                  q == self[r].quantity
                  d == tx[r].dest
                  found == Matching(batches, A, L)
              IN  /\ d \in DOMAIN batches'
                  /\ batches'[d].product = A.product
                  /\ batches'[d].lot_code = A.lot_code
                  /\ batches'[d].expiry_date = A.expiry_date
                  /\ batches'[d].location = L
                  /\ IF found # {}
                     THEN /\ d \in found
                          /\ DOMAIN batches' = DOMAIN batches
                          /\ batches'[d].quantity = batches[d].quantity + q
                     ELSE /\ d \notin DOMAIN batches
                          /\ DOMAIN batches' = DOMAIN batches \cup {d}
                          /\ batches'[d].quantity = q]_vars

----------------------------------------------------------------------------
(* C13 *)

\* The destination of the TRANSFER m is missing or is the location its
\* source batch has now.
BadDestination(m) ==
    /\ m.movement_type = "TRANSFER"
    /\ \/ m.destination_location = None
       \/ m.destination_location = batches[m.batch].location

\* C13 (as claimed, for a movement whose quantity is at least 1): a TRANSFER
\* whose destination is missing or is the current location of its source
\* batch is rejected with InvalidDestination where it is validated and where
\* it is applied, the tables left as they were; and no save of a TRANSFER to
\* the batch's own location commits a lower quantity for the batch.
C13_BadDestinationRejected ==
    [][\A r \in Requests :
          /\ Posts(r) /\ BadDestination(self'[r]) /\ self'[r].quantity >= 1
                => Rejected(r, "InvalidDestination")
          /\ Locks(r) /\ BadDestination(self[r])
                => Rejected(r, "InvalidDestination")
          /\ Commits(r) /\ BadDestination(self[r])
                => batches'[self[r].batch].quantity >=
                       batches[self[r].batch].quantity]_vars

----------------------------------------------------------------------------
(* C14 *)

\* C14: a movement of any type whose quantity is less than 1 is rejected with
\* InvalidQuantity when its form is validated, whatever else is wrong with
\* it: save never starts, no Batch changes and no Movement is recorded.
C14_InvalidQuantityRejected ==
    [][\A r \in Requests :
          Posts(r) /\ self'[r].quantity < 1 =>
              /\ Rejected(r, "InvalidQuantity")
              /\ tx'[r] = NoTx]_vars

\* A TRANSFER with quantity 0 and no destination was rejected for its
\* quantity, and an OUT with quantity 0 too; the tables are as at the start.
C14_Witness ==
    \E r, o \in Requests :
        /\ pc[r] = "done" /\ pc[o] = "done"
        /\ self[r].movement_type = "TRANSFER"
        /\ self[r].destination_location = None
        /\ self[r].quantity = 0
        /\ self[o].movement_type = "OUT"
        /\ self[o].quantity = 0
        /\ outcome[r] = "InvalidQuantity"
        /\ outcome[o] = "InvalidQuantity"
        /\ batches \in InitialBatches
        /\ movements = <<>>

----------------------------------------------------------------------------
(* C15 *)

\* The step in which request r leaves save, with or without an exception.
Ends(r) == pc[r] \in {"validated", "locked", "resolved"} /\ pc'[r] = "done"

\* C15: the tables change only in the step in which a save commits; that
\* step writes the Movement row (a new row under the next pk for a new
\* movement) together with the batch rows save wrote, so a new Movement is in
\* the ledger exactly when its effect on the batches is; and a step in which
\* save fails, the final insert of the Movement row included, leaves both
\* tables as they were.
C15_LedgerAndBatchesTogether ==
    [][/\ (batches' # batches \/ movements' # movements)
             => \E r \in Requests : Commits(r)
       /\ \A r \in Requests :
             Ends(r) =>
                 IF outcome'[r] = "ok"
                 THEN /\ Rows(batches') = Rows(ApplyMovement(batches, self[r]))
                      /\ \A b \in DOMAIN batches :
                             batches'[b] = ApplyMovement(batches, self[r])[b]
                      /\ LET pk == IF self[r].pk = 0 THEN movement_seq + 1
                                   ELSE self[r].pk
                         IN  /\ pk \in DOMAIN movements'
                             /\ movements'[pk] = MovementRow(self[r])
                             /\ self[r].pk = 0 => pk \notin DOMAIN movements
                 ELSE batches' = batches /\ movements' = movements]_vars

\* The insert of the Movement row of a TRANSFER that had created its
\* destination failed: no batch was created, the source is as it was read
\* and the ledger is empty.
C15_Witness ==
    \E r \in Requests :
        /\ pc[r] = "done"
        /\ outcome[r] = "DatabaseError"
        /\ self[r].movement_type = "TRANSFER"
        /\ tx[r].created
        /\ tx[r].dest \notin DOMAIN batches
        /\ batches[self[r].batch] = tx[r].batch
        /\ batches \in InitialBatches
        /\ movements = <<>>

----------------------------------------------------------------------------
(* C16 *)

\* C16: a committed ADJUST of amount a leaves its batch at max(0, a) whatever
\* the batch held (so a second application of the same ADJUST changes
\* nothing), and an ADJUST is never rejected for insufficient stock, by clean
\* or by save.
C16_AdjustSets ==
    [][\A r \in Requests :
          /\ Commits(r) /\ self[r].movement_type = "ADJUST" =>
                /\ batches'[self[r].batch].quantity = Max(0, self[r].quantity)
                /\ batches[self[r].batch].quantity = Max(0, self[r].quantity)
                      => batches' = batches
          /\ Posts(r) /\ self'[r].movement_type = "ADJUST"
                => outcome'[r] # "InsufficientStock"
          /\ Locks(r) /\ self[r].movement_type = "ADJUST"
                => pc'[r] = "locked"]_vars

\* The same ADJUST was applied twice, to a batch that held more than its
\* amount, and the batch holds the amount.
C16_Witness ==
    \E r, o \in Requests :
        /\ r # o
        /\ outcome[r] = "ok" /\ outcome[o] = "ok"
        /\ self[r].movement_type = "ADJUST"
        /\ MovementRow(self[o]) = MovementRow(self[r])
        /\ tx[o].lockAt > tx[r].lockAt
        /\ self[r].quantity < self_batch[r].quantity
        /\ batches[self[r].batch].quantity = self[r].quantity

----------------------------------------------------------------------------
(* C17 *)

\* C17: a committed IN of amount a leaves its batch at the quantity it held
\* plus a, and an IN is never rejected for insufficient stock; a committed
\* OUT or WASTE of amount a finds a <= the quantity held and leaves the batch
\* at that quantity minus a.
C17_ExactDeltas ==
    [][\A r \in Requests :
          LET b == self[r].batch
              a == self[r].quantity
          IN  /\ Commits(r) /\ self[r].movement_type = "IN"
                    => batches'[b].quantity = batches[b].quantity + a
              /\ Commits(r) /\ self[r].movement_type \in {"OUT", "WASTE"}
                    => /\ a <= batches[b].quantity
                       /\ batches'[b].quantity = batches[b].quantity - a
              /\ Posts(r) /\ self'[r].movement_type = "IN"
                    => outcome'[r] # "InsufficientStock"
              /\ Locks(r) /\ self[r].movement_type = "IN"
                    => pc'[r] = "locked"]_vars

\* An IN of a committed on a batch holding q, an OUT of b committed after
\* it, and the batch holds q + a - b.
C17_Witness ==
    \E r, o \in Requests :
        /\ r # o
        /\ outcome[r] = "ok" /\ outcome[o] = "ok"
        /\ self[r].movement_type = "IN"
        /\ self[o].movement_type = "OUT"
        /\ self[r].batch = self[o].batch
        /\ tx[o].lockAt > tx[r].lockAt
        /\ batches[self[r].batch].quantity =
               self_batch[r].quantity + self[r].quantity - self[o].quantity

----------------------------------------------------------------------------
(* C18 *)

\* C18: a step that removes a Movement from the ledger (MovementDeleteView)
\* leaves every Batch row as it was and removes that one row only: the delta
\* the Movement applied stays in the quantity.
C18_DeleteKeepsQuantities ==
    [][(\E pk \in DOMAIN movements : pk \notin DOMAIN movements') =>
           /\ batches' = batches
           /\ \E pk \in DOMAIN movements :
                  /\ DOMAIN movements' = DOMAIN movements \ {pk}
                  /\ \A x \in DOMAIN movements' : movements'[x] = movements[x]]_vars

\* An OUT was committed and then deleted: the ledger is empty and the batch
\* still holds what it held less the amount, which is not the fold of the
\* movements that remain.
C18_Witness ==
    \E r \in Requests :
        /\ outcome[r] = "ok"
        /\ self[r].movement_type = "OUT"
        /\ movement_seq = 1
        /\ DOMAIN movements = {}
        /\ edits = 1
        /\ batches[self[r].batch].quantity =
               self_batch[r].quantity - self[r].quantity

----------------------------------------------------------------------------
(* C20 *)

\* The Batch table with the quantity of batch b replaced by q.
WithQuantity(rows, b, q) == [rows EXCEPT ![b].quantity = q]

\* C20 (as claimed): what clean answers for a posted movement is the same
\* for every quantity its source batch could hold, and InsufficientStock is
\* answered only by save, once the row lock is held, never by the step that
\* validates the form.
C20_CleanIgnoresStock ==
    [][\A r \in Requests :
          Posts(r) =>
              /\ \A q \in 0 .. MaxQty :
                     clean(self'[r], WithQuantity(batches, self'[r].batch, q))
                         = clean(self'[r], batches)
              /\ outcome'[r] # "InsufficientStock"]_vars

----------------------------------------------------------------------------
(* C19 *)

\* The label the claim gives a batch on day today.
LabelOn(expiry_date, today) ==
    IF expiry_date < today THEN "expired"
    ELSE IF today <= expiry_date /\ expiry_date <= today + SoonDays THEN "warning"
    ELSE "ok"

\* C19 (as claimed): status_label returns one of expired, warning, ok, and
\* the one the claim gives for a current date of the evaluation: expired iff
\* expiry_date < today, warning iff today <= expiry_date <= today + 7 days,
\* ok otherwise; and on no day are is_expired and expires_soon both true.
C19_StatusLabel ==
    /\ render.pc = "returned" =>
          /\ render.label \in {"expired", "warning", "ok"}
          /\ \E today \in render.calledAt .. render.returnedAt :
                 render.label = LabelOn(render.expiry_date, today)
    /\ \A today \in Days :
          ~(is_expired(render.expiry_date, today)
            /\ expires_soon(render.expiry_date, today))

\* When the local date is the same at both reads, the label is the claim's.
StatusLabelOnOneDay ==
    render.pc = "returned" /\ render.calledAt = render.returnedAt =>
        render.label = LabelOn(render.expiry_date, render.calledAt)

----------------------------------------------------------------------------
(* C21 *)

\* Request r has passed validation and its save has not ended.
Started(r) == pc[r] \in {"validated", "locked", "resolved"}

----------------------------------------------------------------------------
(* C22 *)

\* r and o are committed TRANSFERs from two different source batches of one
\* product, lot code and expiry date to one location, where r found no
\* matching batch and created it.
CreatedTogether(r, o) ==
    /\ r # o
    /\ outcome[r] = "ok" /\ outcome[o] = "ok"
    /\ self[r].movement_type = "TRANSFER" /\ self[o].movement_type = "TRANSFER"
    /\ self[r].batch # self[o].batch
    /\ self[r].destination_location = self[o].destination_location
    /\ tx[r].batch.product = tx[o].batch.product
    /\ tx[r].batch.lot_code = tx[o].batch.lot_code
    /\ tx[r].batch.expiry_date = tx[o].batch.expiry_date
    /\ tx[r].created

\* C22: when two such TRANSFERs of q1 and q2 have both committed, whatever
\* their interleaving, one batch with their product, lot code and expiry
\* date exists at the destination: the one the first created, which the
\* second found, and it holds q1 + q2.
C22_OneDestination ==
    \A r, o \in Requests :
        CreatedTogether(r, o) =>
            LET D == Matching(batches, tx[r].batch, self[r].destination_location)
            IN  /\ D = {tx[r].dest}
                /\ ~tx[o].created
                /\ tx[o].dest = tx[r].dest
                /\ batches[tx[r].dest].quantity = self[r].quantity + self[o].quantity

\* Both TRANSFERs were validated and had locked their sources before either
\* committed; one created the destination while the other waited, and the
\* destination holds both amounts.
C22_Witness ==
    \E r, o \in Requests :
        /\ CreatedTogether(r, o)
        /\ self[r].cleanAt = 0 /\ self[o].cleanAt = 0
        /\ tx[r].lockAt = 0 /\ tx[o].lockAt = 0
        /\ batches[tx[r].dest].quantity = self[r].quantity + self[o].quantity
        /\ Cardinality(DOMAIN batches) = 3

----------------------------------------------------------------------------
(* C23 *)

\* Row b is the same before and after the step, but for its quantity.
OnlyQuantityOf(b) ==
    batches'[b] = [batches[b] EXCEPT !.quantity = batches'[b].quantity]

\* C23: the save of an IN, OUT, WASTE or ADJUST that commits leaves every
\* batch but its source as it was, creates and deletes none, leaves the
\* source's product, lot code, expiry date and location as they were, and
\* writes what it would write with no destination_location given.  The save
\* of a TRANSFER that commits leaves every batch but its source and its
\* destination as it was, changes of those two only the quantity, creates at
\* most the destination and deletes none, the source least of all.
C23_Frame ==
    [][\A r \in Requests :
          LET m == self[r]
              d == tx[r].dest
          IN  /\ Commits(r) /\ m.movement_type # "TRANSFER"
                    => /\ DOMAIN batches' = DOMAIN batches
                       /\ \A b \in DOMAIN batches \ {m.batch} :
                              batches'[b] = batches[b]
                       /\ OnlyQuantityOf(m.batch)
                       /\ batches' = ApplyMovement(batches,
                              [m EXCEPT !.destination_location = None])
              /\ Commits(r) /\ m.movement_type = "TRANSFER"
                    => /\ DOMAIN batches \subseteq DOMAIN batches'
                       /\ DOMAIN batches' \subseteq DOMAIN batches \cup {d}
                       /\ \A b \in DOMAIN batches \ {m.batch, d} :
                              batches'[b] = batches[b]
                       /\ \A b \in DOMAIN batches \cap {m.batch, d} :
                              OnlyQuantityOf(b)
                       /\ m.batch \in DOMAIN batches']_vars

\* A TRANSFER has committed and left its source batch with quantity 0, and an
\* IN, OUT, WASTE or ADJUST posted with a destination_location has committed.
C23_Witness ==
    \E r, o \in Requests :
        /\ outcome[r] = "ok" /\ outcome[o] = "ok"
        /\ self[r].movement_type = "TRANSFER"
        /\ batches[self[r].batch].quantity = 0
        /\ self[o].movement_type # "TRANSFER"
        /\ self[o].destination_location # None
        /\ self[o].destination_location # batches[self[o].batch].location

----------------------------------------------------------------------------
(* C24 *)

\* The post of request r arrives.
Arrives(r) == toggle[r].pc = "new" /\ toggle'[r].pc # "new"

\* The post of request r saves the user it read.
Saves(r) == toggle[r].pc = "loaded" /\ toggle'[r].pc = "done"

\* The post of o had saved its target before the post of r, on the same
\* target, read it.
Consecutive(o, r) ==
    /\ o # r
    /\ toggle[o].outcome = "success" /\ toggle[r].outcome = "success"
    /\ toggle[o].pk = toggle[r].pk
    /\ toggle[o].savedAt <= toggle[r].readAt

\* C24: a post by a requester who is neither staff nor superuser, and a post
\* by staff or a superuser on their own account, end without a save and
\* change no user; a post by staff or a superuser on another existing user
\* goes on to save, and its save sets that user's is_active to the negation
\* of what the post read and changes nothing else of any user; no other step
\* changes a user.  After two consecutive toggles of one target its is_active
\* is what the first of them read.
C24_AccountToggle ==
    /\ [][/\ \A r \in Requests :
               LET t == toggle'[r]
                   allowed == test_func(RequestUser(t.request_user))
               IN  /\ Arrives(r) =>
                          /\ users' = users
                          /\ ~allowed => t.pc = "done"
                          /\ allowed /\ t.request_user = t.pk => t.pc = "done"
                          /\ allowed /\ t.request_user # t.pk
                                     /\ t.pk \in DOMAIN users => t.pc = "loaded"
                   /\ Saves(r) =>
                          /\ test_func(RequestUser(t.request_user))
                          /\ t.request_user # t.pk
                          /\ DOMAIN users' = DOMAIN users
                          /\ users'[t.pk] = [users[t.pk] EXCEPT
                                 !.is_active = ~toggle[r].user.is_active]
                          /\ \A u \in DOMAIN users \ {t.pk} : users'[u] = users[u]
          /\ users' # users => \E r \in Requests : Saves(r)]_vars
    /\ [](\A r, o \in Requests :
              Consecutive(o, r) =>
                  users[toggle[r].pk].is_active = toggle[o].user.is_active)

\* The staff member and the superuser have toggled the plain user one after
\* the other, and the plain user is active or not as before the first.
C24_Witness ==
    \E r, o \in Requests :
        /\ Consecutive(o, r)
        /\ users[toggle[o].request_user].is_staff
        /\ users[toggle[r].request_user].is_superuser
        /\ ~test_func(users[toggle[r].pk])
        /\ users[toggle[r].pk].is_active = toggle[o].user.is_active

====
